---- MODULE Spec2Model ----
(***************************************************************************)
(* A model of spotlight.py (WPHooksAnalyzer and main): the pattern table,  *)
(* the line matcher, the directory scan, the category filter, the Markdown *)
(* and CSV exports and the terminal summary.  Text is modelled as TLA+     *)
(* strings; a character is a string of length one.                        *)
(***************************************************************************)
EXTENDS Integers, Sequences, FiniteSets, TLC

VARIABLES root, files, args, pc, fileIdx, results, scanned, diagnostics, output, summary

vars == <<root, files, args, pc, fileIdx, results, scanned, diagnostics, output, summary>>

(***************************************************************************)
(* Strings: the str methods and operators the program uses.                *)
(***************************************************************************)

\* s[i], 1-based.
CharAt(s, i) == SubSeq(s, i, i)

\* s[i:], 1-based.
Drop(s, i) == SubSeq(s, i, Len(s))

\* s[i:].startswith(t)
StartsWithAt(s, i, t) == i + Len(t) - 1 <= Len(s) /\ SubSeq(s, i, i + Len(t) - 1) = t

\* needle in hay
Contains(hay, needle) == \E i \in 1..(Len(hay) + 1) : StartsWithAt(hay, i, needle)

\* The backtick (code point 96).  A TLA+ string literal cannot hold that
\* character, so the form feed stands for it everywhere in the model; the form
\* feed itself occurs in no modelled text.
Backtick == "\f"

\* The printable ASCII characters in code-point order, from the space (32) on.
Ascii == " !\"#$%&'()*+,-./0123456789:;<=>?@ABCDEFGHIJKLMNOPQRSTUVWXYZ[\\]^_\fabcdefghijklmnopqrstuvwxyz{|}~"

\* ord(c) - 31
Ord(c) == CHOOSE i \in 1..Len(Ascii) : CharAt(Ascii, i) = c

\* a < b on str: the first differing character decides, a proper prefix is less.
RECURSIVE StrLess(_, _)
StrLess(a, b) ==
  IF b = "" THEN FALSE
  ELSE IF a = "" THEN TRUE
  ELSE IF CharAt(a, 1) = CharAt(b, 1) THEN StrLess(Drop(a, 2), Drop(b, 2))
  ELSE Ord(CharAt(a, 1)) < Ord(CharAt(b, 1))

Whitespace == {" ", "\t", "\n", "\r"}

Quotes == {"'", "\""}

\* s.lstrip(chars) and s.rstrip(chars), chars a set of characters.
RECURSIVE LStrip(_, _)
LStrip(s, chars) ==
  IF s # "" /\ CharAt(s, 1) \in chars THEN LStrip(Drop(s, 2), chars) ELSE s

RECURSIVE RStrip(_, _)
RStrip(s, chars) ==
  IF s # "" /\ CharAt(s, Len(s)) \in chars THEN RStrip(SubSeq(s, 1, Len(s) - 1), chars) ELSE s

\* s.strip(chars)
StripChars(s, chars) == RStrip(LStrip(s, chars), chars)

\* s.replace(old, new) for a non-empty old: every non-overlapping occurrence,
\* left to right.
RECURSIVE Replace(_, _, _)
Replace(s, old, new) ==
  IF s = "" THEN ""
  ELSE IF StartsWithAt(s, 1, old) THEN new \o Replace(Drop(s, Len(old) + 1), old, new)
  ELSE CharAt(s, 1) \o Replace(Drop(s, 2), old, new)

\* s.split(sep)[0] for a one-character sep: the text before the first sep.
RECURSIVE SplitFirst(_, _)
SplitFirst(s, sep) ==
  IF s = "" \/ CharAt(s, 1) = sep THEN ""
  ELSE CharAt(s, 1) \o SplitFirst(Drop(s, 2), sep)

Upper(c) ==
  IF Ord(c) >= Ord("a") /\ Ord(c) <= Ord("z") THEN CharAt(Ascii, Ord(c) - (Ord("a") - Ord("A"))) ELSE c

\* s.title() for a single lower-case word.
Title(s) == IF s = "" THEN "" ELSE Upper(CharAt(s, 1)) \o Drop(s, 2)

(***************************************************************************)
(* The pattern engine: re.finditer and re.search on the regular            *)
(* expressions the program uses (literals, \-escapes, bracketed classes    *)
(* holding \w, quotes and a hyphen, and the greedy + quantifier).          *)
(***************************************************************************)

Letters == "abcdefghijklmnopqrstuvwxyzABCDEFGHIJKLMNOPQRSTUVWXYZ"

Digits == "0123456789"

\* \w on str patterns, within ASCII.
IsWordChar(c) == c = "_" \/ Contains(Letters, c) \/ Contains(Digits, c)

\* One pattern atom: the literal characters it accepts, and whether it accepts \w.
Atom(lit, word) == [lit |-> lit, word |-> word]

AtomAccepts(a, c) == c \in a.lit \/ (a.word /\ IsWordChar(c))

\* The members of a bracketed class, read from pat[p] up to the closing bracket.
RECURSIVE ClassAtom(_, _)
ClassAtom(pat, p) ==
  IF p > Len(pat) \/ CharAt(pat, p) = "]" THEN [atom |-> Atom({}, FALSE), next |-> p + 1]
  ELSE IF CharAt(pat, p) = "\\"
       THEN LET rest == ClassAtom(pat, p + 2)
                c == CharAt(pat, p + 1)
            IN  [atom |-> IF c = "w" THEN Atom(rest.atom.lit, TRUE)
                          ELSE Atom(rest.atom.lit \cup {c}, rest.atom.word),
                 next |-> rest.next]
       ELSE LET rest == ClassAtom(pat, p + 1)
            IN  [atom |-> Atom(rest.atom.lit \cup {CharAt(pat, p)}, rest.atom.word),
                 next |-> rest.next]

\* The atom starting at pat[p], the index after it, and whether + follows it.
AtomAt(pat, p) ==
  LET c == CharAt(pat, p)
      a == IF c = "[" THEN ClassAtom(pat, p + 1)
           ELSE IF c = "\\"
                THEN [atom |-> IF CharAt(pat, p + 1) = "w" THEN Atom({}, TRUE)
                               ELSE Atom({CharAt(pat, p + 1)}, FALSE),
                      next |-> p + 2]
                ELSE [atom |-> Atom({c}, FALSE), next |-> p + 1]
      plus == a.next <= Len(pat) /\ CharAt(pat, a.next) = "+"
  IN  [atom |-> a.atom, next |-> IF plus THEN a.next + 1 ELSE a.next, plus |-> plus]

\* How many characters from s[i] on the atom accepts in a row.
RECURSIVE RunLength(_, _, _)
RunLength(a, s, i) ==
  IF i <= Len(s) /\ AtomAccepts(a, CharAt(s, i)) THEN 1 + RunLength(a, s, i + 1) ELSE 0

\* Match pat[p:] at s[i]: the index after the match, or 0 when there is none.
\* A + atom takes the longest run first and gives characters back one at a time.
RECURSIVE MatchHere(_, _, _, _)
RECURSIVE MatchPlus(_, _, _, _, _)
MatchHere(pat, p, s, i) ==
  IF p > Len(pat) THEN i
  ELSE LET a == AtomAt(pat, p)
       IN  IF a.plus THEN MatchPlus(pat, a.next, s, i, RunLength(a.atom, s, i))
           ELSE IF i <= Len(s) /\ AtomAccepts(a.atom, CharAt(s, i))
                THEN MatchHere(pat, a.next, s, i + 1)
                ELSE 0

MatchPlus(pat, p, s, i, k) ==
  IF k < 1 THEN 0
  ELSE LET e == MatchHere(pat, p, s, i + k)
       IN  IF e # 0 THEN e ELSE MatchPlus(pat, p, s, i, k - 1)

\* A match object: group() is s[start..stop-1].
Group(s, m) == SubSeq(s, m.start, m.stop - 1)

\* re.search(pat, s): the leftmost match, as a one-element sequence, or <<>> for None.
RECURSIVE SearchFrom(_, _, _)
SearchFrom(pat, s, pos) ==
  IF pos > Len(s) THEN <<>>
  ELSE LET e == MatchHere(pat, 1, s, pos)
       IN  IF e # 0 THEN <<[start |-> pos, stop |-> e]>> ELSE SearchFrom(pat, s, pos + 1)

search(pat, s) == SearchFrom(pat, s, 1)

\* re.finditer(pat, s): the non-overlapping matches, scanning left to right from
\* pos; after a match the scan resumes where the match ended.
RECURSIVE FindIterFrom(_, _, _)
FindIterFrom(pat, s, pos) ==
  IF pos > Len(s) THEN <<>>
  ELSE LET e == MatchHere(pat, 1, s, pos)
       IN  IF e # 0 THEN <<[start |-> pos, stop |-> e]>> \o FindIterFrom(pat, s, e)
           ELSE FindIterFrom(pat, s, pos + 1)

\* A finditer that stops after the first match.
finditer_first_match(pat, s) == SearchFrom(pat, s, 1)

finditer(pat, s) == FindIterFrom(pat, s, 1)

(***************************************************************************)
(* WPHooksAnalyzer.__init__: the pattern table and the labels.             *)
(***************************************************************************)

\* The quoted-identifier part shared by the identifier-bearing patterns, as the
\* raw string spells it.
QuotedIdent == "[\\'\"][\\w-]+[\\'\"]"

\* r'name\(' followed by the quoted identifier, and the bare r'name\('.
WithIdent(name) == name \o "\\(" \o QuotedIdent

Bare(name) == name \o "\\("

\* The keys of self.patterns in insertion order.
Categories == <<"action", "filter", "shortcode", "hook">>

patterns ==
  [action |-> << WithIdent("add_action"), WithIdent("do_action"), WithIdent("has_action"),
                 WithIdent("remove_action"), WithIdent("remove_all_actions"),
                 WithIdent("did_action"), WithIdent("do_action_ref_array") >>,
   filter |-> << WithIdent("add_filter"), WithIdent("apply_filters"), WithIdent("has_filter"),
                 WithIdent("remove_filter"), WithIdent("remove_all_filters"),
                 Bare("current_filter"), WithIdent("apply_filters_ref_array") >>,
   shortcode |-> << WithIdent("add_shortcode"), WithIdent("do_shortcode"),
                    WithIdent("has_shortcode"), WithIdent("remove_shortcode"),
                    Bare("remove_all_shortcodes"), Bare("shortcode_atts") >>,
   hook |-> << WithIdent("wp_hook") >>]

function_types ==
  [add_action |-> "Action Registration",
   do_action |-> "Action Execution",
   has_action |-> "Action Check",
   remove_action |-> "Action Removal",
   remove_all_actions |-> "All Actions Removal",
   did_action |-> "Action Execution Check",
   do_action_ref_array |-> "Action Execution (Reference)",
   add_filter |-> "Filter Registration",
   apply_filters |-> "Filter Application",
   has_filter |-> "Filter Check",
   remove_filter |-> "Filter Removal",
   remove_all_filters |-> "All Filters Removal",
   current_filter |-> "Current Filter Check",
   apply_filters_ref_array |-> "Filter Application (Reference)",
   add_shortcode |-> "Shortcode Registration",
   do_shortcode |-> "Shortcode Execution",
   has_shortcode |-> "Shortcode Check",
   remove_shortcode |-> "Shortcode Removal",
   remove_all_shortcodes |-> "All Shortcodes Removal",
   shortcode_atts |-> "Shortcode Attributes",
   wp_hook |-> "Hook Creation"]

\* d.get(key, default)
DictGet(d, key, default) == IF key \in DOMAIN d THEN d[key] ELSE default

(***************************************************************************)
(* WPHooksAnalyzer.get_function_name and find_matches.                     *)
(***************************************************************************)

get_function_name(match_text) == SplitFirst(match_text, "(")

\* The sentinel of a call without a quoted identifier.
NA == "N/A"

\* A hook_name that looks for single-quoted identifiers only.
HookName_single_quoted(match_text) ==
  LET hook_match == search("'[\\w-]+'", match_text)
  IN  IF hook_match # <<>> THEN StripChars(Group(match_text, hook_match[1]), Quotes) ELSE NA

\* hook_name of one match: the first quoted identifier inside the matched text,
\* its quote characters stripped, or the sentinel.
HookName(match_text) ==
  LET hook_match == search(QuotedIdent, match_text)
  IN  IF hook_match # <<>> THEN StripChars(Group(match_text, hook_match[1]), Quotes) ELSE NA

\* A highlight that leaves the closing marker out.
Highlight_unclosed(line, match_text) == Replace(line, match_text, Backtick \o match_text)

\* line.replace(match.group(), f'`{match.group()}`')
Highlight(line, match_text) == Replace(line, match_text, Backtick \o match_text \o Backtick)

\* The dict appended for one match.
MatchRecord(category, line, m, line_num, file_path) ==
  LET func_name == get_function_name(Group(line, m))
  IN  [category |-> category,
       function |-> func_name,
       function_type |-> DictGet(function_types, func_name, "Unknown"),
       hook_name |-> HookName(Group(line, m)),
       line_number |-> line_num,
       file_path |-> file_path,
       original_line |-> line,
       highlighted_line |-> Highlight(line, Group(line, m))]

\* for match in matches: the records of one pattern on one line.
PatternRecords(category, pattern, line, line_num, file_path) ==
  LET matches == finditer(pattern, line)
  IN  [k \in 1..Len(matches) |-> MatchRecord(category, line, matches[k], line_num, file_path)]

\* for pattern in patterns: patterns j.. of one category on one line.
RECURSIVE CategoryRecords(_, _, _, _, _)
CategoryRecords(category, j, line, line_num, file_path) ==
  IF j > Len(patterns[category]) THEN <<>>
  ELSE PatternRecords(category, patterns[category][j], line, line_num, file_path)
       \o CategoryRecords(category, j + 1, line, line_num, file_path)

\* for category, patterns in self.patterns.items(): categories c.. on one line.
RECURSIVE LineRecords(_, _, _, _)
LineRecords(c, line, line_num, file_path) ==
  IF c > Len(Categories) THEN <<>>
  ELSE CategoryRecords(Categories[c], 1, line, line_num, file_path)
       \o LineRecords(c + 1, line, line_num, file_path)

\* for line_num, line in enumerate(file.readlines(), 1): lines n.. of a file,
\* each stripped of surrounding whitespace before matching.
RECURSIVE LinesRecords(_, _, _)
LinesRecords(lines, n, file_path) ==
  IF n > Len(lines) THEN <<>>
  ELSE LineRecords(1, StripChars(lines[n], Whitespace), n, file_path)
       \o LinesRecords(lines, n + 1, file_path)

\* What the environment does to a file: it reads fine, open() raises, or a byte
\* after the lines of the file does not decode (readlines() raises).
Failures == {"none", "open", "decode"}

\* A find_matches that matches line by line while it reads: the lines before
\* a byte that does not decode have already given their records.
find_matches_line_by_line(file) ==
  IF file.fail = "open" THEN <<>> ELSE LinesRecords(file.lines, 1, file.path)

\* find_matches: file.readlines() reads the whole file before the first line is
\* matched, so a failure of open() or of the decoding leaves results empty.
find_matches(file) ==
  IF file.fail # "none" THEN <<>> ELSE LinesRecords(file.lines, 1, file.path)

\* The except branch: what print() shows for a file, if anything.
find_matches_prints(file) ==
  IF file.fail # "none" THEN <<[file_path |-> file.path, error |-> file.fail]>> ELSE <<>>

(***************************************************************************)
(* WPHooksAnalyzer.scan_directory.                                         *)
(***************************************************************************)

\* A traversal that does not depend on the state of the root.
rglob_any_root(rootState, tree) == tree

\* Path(directory).rglob('*.php'): the *.php files under the root in traversal
\* order.  Globbing a root that is absent or cannot be listed raises nothing
\* and yields no path.
rglob(rootState, tree) == IF rootState = "ok" THEN tree ELSE <<>>

(***************************************************************************)
(* Grouping helpers: defaultdict accumulation and sorted().                *)
(***************************************************************************)

\* The keys of a dict filled while iterating over seq: first appearance order.
RECURSIVE KeysInOrder(_, _)
KeysInOrder(seq, seen) ==
  IF seq = <<>> THEN <<>>
  ELSE IF Head(seq) \in seen THEN KeysInOrder(Tail(seq), seen)
  ELSE <<Head(seq)>> \o KeysInOrder(Tail(seq), seen \cup {Head(seq)})

\* sorted(reverse=True) of a set of distinct strings.
RECURSIVE SortedStrings_descending(_)
SortedStrings_descending(S) ==
  IF S = {} THEN <<>>
  ELSE LET greatest == CHOOSE x \in S : \A y \in S \ {x} : StrLess(y, x)
       IN  <<greatest>> \o SortedStrings_descending(S \ {greatest})

\* sorted() of a set of distinct strings.
RECURSIVE SortedStrings(_)
SortedStrings(S) ==
  IF S = {} THEN <<>>
  ELSE LET least == CHOOSE x \in S : \A y \in S \ {x} : StrLess(x, y)
       IN  <<least>> \o SortedStrings(S \ {least})

FieldSeq(seq, field) == [i \in 1..Len(seq) |-> seq[i][field]]

(***************************************************************************)
(* WPHooksAnalyzer.export_markdown and export_csv.  The written file is    *)
(* modelled as the sequence of the write calls.                            *)
(***************************************************************************)

Entry(kind, text, num) == [kind |-> kind, text |-> text, num |-> num]

\* The three writes of one result.
ResultEntries(result) ==
  <<Entry("file", result.file_path, result.line_number)>>
  \o (IF result.hook_name # NA THEN <<Entry("hook", result.hook_name, 0)>> ELSE <<>>)
  \o <<Entry("line", result.highlighted_line, 0)>>

RECURSIVE ResultsEntries(_)
ResultsEntries(func_results) ==
  IF func_results = <<>> THEN <<>>
  ELSE ResultEntries(Head(func_results)) \o ResultsEntries(Tail(func_results))

\* for func_name, func_results in sorted(by_function.items())
RECURSIVE FunctionSections(_, _)
FunctionSections(category_results, func_names) ==
  IF func_names = <<>> THEN <<>>
  ELSE LET func_name == Head(func_names)
           func_results == SelectSeq(category_results, LAMBDA r : r.function = func_name)
       IN  <<Entry("h4", DictGet(function_types, func_name, func_name), 0)>>
           \o ResultsEntries(func_results)
           \o FunctionSections(category_results, Tail(func_names))

\* The literal category list of export_markdown.
MarkdownCategories == <<"action", "filter", "shortcode", "hook">>

\* for category in ['action', 'filter', 'shortcode', 'hook']: categories c.. on.
RECURSIVE CategorySections(_, _)
CategorySections(res, c) ==
  IF c > Len(MarkdownCategories) THEN <<>>
  ELSE LET category == MarkdownCategories[c]
           category_results == SelectSeq(res, LAMBDA r : r.category = category)
           by_function == {category_results[i].function : i \in 1..Len(category_results)}
       IN  (IF category_results # <<>>
            THEN <<Entry("h3", Title(category) \o "s", 0)>>
                 \o FunctionSections(category_results, SortedStrings(by_function))
            ELSE <<>>)
           \o CategorySections(res, c + 1)

export_markdown(res, project_name) ==
  <<Entry("h1", project_name, 0), Entry("h2", "WordPress Hooks Analysis", 0)>>
  \o CategorySections(res, 1)

\* The fieldnames of the DictWriter.
CsvFields == <<"category", "function", "function_type", "hook_name",
               "file_path", "line_number", "original_line", "highlighted_line">>

CsvRow(result) ==
  [kind |-> "row",
   cells |-> [k \in 1..Len(CsvFields) |->
                IF CsvFields[k] = "line_number" THEN ToString(result.line_number)
                ELSE result[CsvFields[k]]]]

export_csv(res, project_name) ==
  <<[kind |-> "project", cells |-> <<project_name>>], [kind |-> "header", cells |-> CsvFields]>>
  \o [i \in 1..Len(res) |-> CsvRow(res[i])]

(***************************************************************************)
(* main: the category filter and the terminal summary.                     *)
(***************************************************************************)

\* args.category when --category is not given.
None == "None"

\* A filter that keeps the other categories.
filter_by_category_inverted(res, category) == SelectSeq(res, LAMBDA r : r.category # category)

\* [r for r in results if r['category'] == args.category]
filter_by_category(res, category) == SelectSeq(res, LAMBDA r : r.category = category)

\* A membership test that looks through the patterns of every category.
InCategoryPatterns_any_category(func, category) ==
  \E c \in 1..Len(Categories) :
    \E j \in 1..Len(patterns[Categories[c]]) : Contains(patterns[Categories[c]][j], func)

\* any(func in pattern for pattern in analyzer.patterns[category])
InCategoryPatterns(func, category) ==
  \E j \in 1..Len(patterns[category]) : Contains(patterns[category][j], func)

\* The prints of one category of the summary: its header, then the functions
\* whose name occurs in one of the category's patterns, sorted, each with its
\* count over the whole result list.
CategorySummary(res, category) ==
  LET functions == {res[i].function : i \in 1..Len(res)}
      category_functions == SortedStrings({func \in functions : InCategoryPatterns(func, category)})
  IN  <<Entry("category", Title(category) \o "s", Len(SelectSeq(res, LAMBDA r : r.category = category)))>>
      \o [k \in 1..Len(category_functions) |->
            Entry("function", category_functions[k],
                  Len(SelectSeq(res, LAMBDA r : r.function = category_functions[k])))]

RECURSIVE CategoriesSummary(_, _)
CategoriesSummary(res, cats) ==
  IF cats = <<>> THEN <<>>
  ELSE CategorySummary(res, Head(cats)) \o CategoriesSummary(res, Tail(cats))

\* The summary prints: the total, then one block per category in the order the
\* categories first occur in the results.
print_summary(res) ==
  <<Entry("total", "", Len(res))>>
  \o CategoriesSummary(res, KeysInOrder(FieldSeq(res, "category"), {}))

(***************************************************************************)
(* The inputs: a directory tree and the command line.                      *)
(***************************************************************************)

\* The most *.php files of a scanned tree.
MaxFiles == 2

\* The most fragments of a generated line.
MaxFrags == 3

\* os.path.basename of the script's directory.
ProjectName == "wp-spotlight"

\* str(file_path) of the i-th file of the traversal.
PathOf(i) == "f" \o ToString(i) \o ".php"

\* The contents of the files of a scanned tree, as readlines() returns them.
FileBodies ==
  { <<>>,
    <<"do_action('my_hook');\n", "\n", "  apply_filters('my_hook', $x);\n">>,
    <<"wp_hook('h');do_action('i');add_action(\"i\");\n",
      "\tshortcode_atts( $a ); current_filter()">>,
    <<"do_action('a'); do_action('a');\n">> }

\* A file of the tree: its lines up to the first byte that does not decode (all
\* of them when there is none) and what goes wrong when it is read.  Nothing is
\* read of a file that cannot be opened.
FileStates ==
  {[lines |-> b, fail |-> "none"] : b \in FileBodies}
  \cup {[lines |-> b, fail |-> "decode"] : b \in {<<"do_action('my_hook');\n", "\n">>}}
  \cup {[lines |-> <<>>, fail |-> "open"]}

\* The trees of at most MaxFiles files, in traversal order.
Trees ==
  UNION {{[i \in 1..n |-> [path |-> PathOf(i), lines |-> t[i].lines, fail |-> t[i].fail]] :
            t \in [1..n -> FileStates]} : n \in 0..MaxFiles}

\* The pieces generated lines are made of: calls of both quote styles, a bare
\* call, a call whose name extends another's, and text around calls.
Fragments ==
  { "do_action('a'", "do_action(\"b\"", "add_filter('a-b'", "current_filter(",
    "do_action_ref_array('a'", "); ", "x", "'" }

\* The lines of n fragments.
RECURSIVE LinesOf(_)
LinesOf(n) == IF n = 0 THEN {""} ELSE {f \o l : f \in Fragments, l \in LinesOf(n - 1)}

GeneratedLines == UNION {LinesOf(n) : n \in 0..MaxFrags}

ArgSets == [category : {None} \cup {Categories[c] : c \in 1..Len(Categories)}, format : {"md", "csv"}]

(***************************************************************************)
(* The run of main as a state machine.                                     *)
(*   root, files   the scanned root and the *.php files under it           *)
(*   args          the parsed command line                                 *)
(*   pc            where main is: scan, export, summary, done              *)
(*   fileIdx       the next file of the rglob traversal                    *)
(*   results       scan_directory's results, then main's                   *)
(*   scanned       what scan_directory returned                            *)
(*   diagnostics   the prints of find_matches' except branch               *)
(*   output        the report file                                         *)
(*   summary       the prints of the summary                               *)
(***************************************************************************)

NoOutput == [written |-> FALSE, body |-> <<>>]

Start(r, t, a) ==
  /\ root = r
  /\ files = t
  /\ args = a
  /\ pc = "scan"
  /\ fileIdx = 1
  /\ results = <<>>
  /\ scanned = <<>>
  /\ diagnostics = <<>>
  /\ output = NoOutput
  /\ summary = <<>>

\* A run over a tree of files: the root is there, or cannot be listed (one file
\* under it is enough to see that none is visited), or is absent (and holds none).
Init ==
  \E r \in {"ok", "unreadable", "absent"}, t \in Trees, a \in ArgSets :
    /\ r = "absent" => t = <<>>
    /\ r = "unreadable" => Len(t) = 1
    /\ Start(r, t, a)

\* A run over one file of one generated line.
InitLine ==
  \E l \in GeneratedLines :
    Start("ok", <<[path |-> PathOf(1), lines |-> <<l>>, fail |-> "none"]>>,
          [category |-> None, format |-> "md"])

Listing == rglob(root, files)

\* An iteration that puts the file's records in front of the results.
ScanFile_prepending ==
  /\ pc = "scan"
  /\ fileIdx <= Len(Listing)
  /\ results' = find_matches(Listing[fileIdx]) \o results
  /\ diagnostics' = diagnostics \o find_matches_prints(Listing[fileIdx])
  /\ fileIdx' = fileIdx + 1
  /\ UNCHANGED <<root, files, args, pc, scanned, output, summary>>

\* scan_directory, one iteration: results.extend(self.find_matches(file_path)).
ScanFile ==
  /\ pc = "scan"
  /\ fileIdx <= Len(Listing)
  /\ results' = results \o find_matches(Listing[fileIdx])
  /\ diagnostics' = diagnostics \o find_matches_prints(Listing[fileIdx])
  /\ fileIdx' = fileIdx + 1
  /\ UNCHANGED <<root, files, args, pc, scanned, output, summary>>

\* scan_directory returns and main applies --category.
ScanReturn ==
  /\ pc = "scan"
  /\ fileIdx > Len(Listing)
  /\ scanned' = results
  /\ results' = IF args.category # None THEN filter_by_category(results, args.category)
                ELSE results
  /\ pc' = "export"
  /\ UNCHANGED <<root, files, args, fileIdx, diagnostics, output, summary>>

\* main writes the report in the chosen format.
Export ==
  /\ pc = "export"
  /\ output' = [written |-> TRUE,
                body |-> IF args.format = "md" THEN export_markdown(results, ProjectName)
                         ELSE export_csv(results, ProjectName)]
  /\ pc' = "summary"
  /\ UNCHANGED <<root, files, args, fileIdx, results, scanned, diagnostics, summary>>

\* main prints the summary.
Summary ==
  /\ pc = "summary"
  /\ summary' = print_summary(results)
  /\ pc' = "done"
  /\ UNCHANGED <<root, files, args, fileIdx, results, scanned, diagnostics, output>>

Next == ScanFile \/ ScanReturn \/ Export \/ Summary

Spec == Init /\ [][Next]_vars

SpecLine == InitLine /\ [][Next]_vars

(***************************************************************************)
(* What the claims speak of, stated on the text and not through the        *)
(* pattern engine: the occurrences of the recognized calls on a line.      *)
(***************************************************************************)

\* The scan's results before --category is applied.
ScanResults == IF pc = "scan" THEN results ELSE scanned

\* The files find_matches has been called on.
Visited == 1..(fileIdx - 1)

\* The rules of the table: <<category index, rule index>>.
Rules ==
  UNION {{<<c, j>> : j \in 1..Len(patterns[Categories[c]])} : c \in 1..Len(Categories)}

RuleText(rule) == patterns[Categories[rule[1]]][rule[2]]

\* The call name of a rule, and whether the rule has a quoted-identifier part.
RuleName(rule) == SplitFirst(RuleText(rule), "\\")

RuleHasIdent(rule) == Contains(RuleText(rule), QuotedIdent)

IdentRuleNames == {RuleName(rule) : rule \in {x \in Rules : RuleHasIdent(x)}}

BareRuleNames == {RuleName(rule) : rule \in {x \in Rules : ~RuleHasIdent(x)}}

\* rule before rule2 in declaration order: categories first, then rules.
RuleBefore(rule, rule2) ==
  rule[1] < rule2[1] \/ (rule[1] = rule2[1] /\ rule[2] < rule2[2])

\* The rules with their call names, each computed once.
RuleTable ==
  {[rule |-> rule, name |-> RuleName(rule), hasIdent |-> RuleHasIdent(rule)] : rule \in Rules}

IsIdentChar(c) == IsWordChar(c) \/ c = "-"

\* The index after the identifier characters that start at line[i].
IdentStop(line, i) ==
  CHOOSE k \in i..(Len(line) + 1) :
    /\ \A m \in i..(k - 1) : IsIdentChar(CharAt(line, m))
    /\ k = Len(line) + 1 \/ ~IsIdentChar(CharAt(line, k))

\* The call of rule t written at line[s]: name, "(", and for an
\* identifier-bearing rule a quote, one or more identifier characters and a quote.
\* stop is the index after the call, ident the text between the quotes.
CallAt(line, t, s) ==
  LET open == s + Len(t.name)
      k == IdentStop(line, open + 2)
  IN  IF ~t.hasIdent
      THEN [rule |-> t.rule, name |-> t.name, hasIdent |-> FALSE,
            start |-> s, stop |-> open + 1, ident |-> NA]
      ELSE [rule |-> t.rule, name |-> t.name, hasIdent |-> TRUE,
            start |-> s, stop |-> k + 1, ident |-> SubSeq(line, open + 2, k - 1)]

IsCallAt(line, t, s) ==
  LET open == s + Len(t.name)
      k == IdentStop(line, open + 2)
  IN  /\ StartsWithAt(line, s, t.name)
      /\ open <= Len(line) /\ CharAt(line, open) = "("
      /\ t.hasIdent =>
           /\ open + 1 <= Len(line) /\ CharAt(line, open + 1) \in Quotes
           /\ k > open + 2
           /\ k <= Len(line) /\ CharAt(line, k) \in Quotes

\* Every occurrence of a recognized call on the line.
Occurrences(line) ==
  {CallAt(line, ts[1], ts[2]) :
     ts \in {x \in RuleTable \X (1..Len(line)) : IsCallAt(line, x[1], x[2])}}

CallText(line, o) == SubSeq(line, o.start, o.stop - 1)

Overlap(o, o2) == o.start < o2.stop /\ o2.start < o.stop

\* o is reported before o2: by an earlier rule, or by the same rule further left.
ReportedBefore(o, o2) ==
  RuleBefore(o.rule, o2.rule) \/ (o.rule = o2.rule /\ o.start < o2.start)

\* The place of occurrence o among the records of a line with occurrences occs.
Rank(occs, o) == 1 + Cardinality({o2 \in occs : ReportedBefore(o2, o)})

\* The line with the marker characters put around line[start..stop-1] only.
Splice(line, o) ==
  SubSeq(line, 1, o.start - 1) \o Backtick \o CallText(line, o) \o Backtick \o Drop(line, o.stop)

\* The n-th line of the i-th file as find_matches matches it.
LineOf(i, n) == StripChars(Listing[i].lines[n], Whitespace)

\* The records of the n-th line of the i-th file.
RecordsOf(i, n) ==
  SelectSeq(ScanResults, LAMBDA r : r.file_path = Listing[i].path /\ r.line_number = n)

\* The lines find_matches has read: <<file index, line number>>.
ReadLines ==
  UNION {{<<i, n>> : n \in 1..Len(Listing[i].lines)} :
           i \in {v \in Visited : Listing[v].fail = "none"}}

(***************************************************************************)
(* The claims.                                                             *)
(***************************************************************************)

\* s.endswith(t)
EndsWith(s, t) == Len(t) <= Len(s) /\ SubSeq(s, Len(s) - Len(t) + 1, Len(s)) = t

\* No call name of the table ends another, so no call text is matched by two rules.
NoNameEndsAnother ==
  \A t \in RuleTable, t2 \in RuleTable : t # t2 => ~EndsWith(t2.name, t.name)

\* C1: on every line read, the records of the identifier-bearing rules are
\* exactly the occurrences of a recognized call name('ident': one record per
\* occurrence, no two occurrences overlap (so none is reported by two rules),
\* and the record of an occurrence carries the rule's call name and, as
\* hook_name, the text between the occurrence's quotes.
C1_OneRecordPerOccurrence ==
  /\ NoNameEndsAnother
  /\ \A fn \in ReadLines :
    LET line == LineOf(fn[1], fn[2])
        recs == RecordsOf(fn[1], fn[2])
        occs == Occurrences(line)
        idents == {o \in occs : o.hasIdent}
    IN  /\ Len(SelectSeq(recs, LAMBDA r : r.function \in IdentRuleNames)) = Cardinality(idents)
        /\ Len(recs) = Cardinality(occs)
        /\ \A o \in idents, o2 \in occs : o # o2 => ~Overlap(o, o2)
        /\ \A o \in idents :
             LET rec == recs[Rank(occs, o)]
             IN  /\ rec.function = o.name
                 /\ rec.category = Categories[o.rule[1]]
                 /\ rec.hook_name = o.ident
                 /\ rec.original_line = line

\* C1 witness: a line read with two calls of one identifier-bearing rule, one
\* quoted with double quotes, and both reported.
C1_Witness ==
  \E fn \in ReadLines :
    LET line == LineOf(fn[1], fn[2])
        occs == Occurrences(line)
    IN  /\ \E o \in occs, o2 \in occs :
             /\ o.rule = o2.rule /\ o.start < o2.start /\ o.hasIdent
             /\ CharAt(line, o2.stop - 1) = "\""
        /\ Len(RecordsOf(fn[1], fn[2])) >= 2

\* C2: on a line read that holds exactly two recognized calls whose texts
\* differ, two records are produced and the highlighted_line of each is the line
\* with the marker characters around that record's own call and nowhere else.
C2_TwoCallsHighlightOwn ==
  \A fn \in ReadLines :
    LET line == LineOf(fn[1], fn[2])
        recs == RecordsOf(fn[1], fn[2])
        occs == Occurrences(line)
    IN  (/\ Cardinality(occs) = 2
         /\ \A o \in occs, o2 \in occs : o # o2 => CallText(line, o) # CallText(line, o2))
        => /\ Len(recs) = 2
           /\ \A o \in occs : recs[Rank(occs, o)].highlighted_line = Splice(line, o)

\* C2 witness: a line read with exactly two calls of one rule with different
\* identifiers, and two records for it.
C2_Witness ==
  \E fn \in ReadLines :
    LET line == LineOf(fn[1], fn[2])
        occs == Occurrences(line)
    IN  /\ Cardinality(occs) = 2
        /\ \E o \in occs, o2 \in occs : o.rule = o2.rule /\ o.ident # o2.ident
        /\ Len(RecordsOf(fn[1], fn[2])) = 2

\* C2 witness of the other case: two calls of different rules.
C2_WitnessKinds ==
  \E fn \in ReadLines :
    LET occs == Occurrences(LineOf(fn[1], fn[2]))
    IN  /\ Cardinality(occs) = 2
        /\ \E o \in occs, o2 \in occs : o.rule # o2.rule
        /\ Len(RecordsOf(fn[1], fn[2])) = 2

\* C3: on a line read where the same call text occurs two or more times, there
\* is one record per occurrence and the highlighted_line of the i-th of them is
\* the line with the marker characters around the i-th occurrence and no other.
C3_RepeatedCallHighlightOwn ==
  \A fn \in ReadLines :
    LET line == LineOf(fn[1], fn[2])
        recs == RecordsOf(fn[1], fn[2])
        occs == Occurrences(line)
    IN  \A o \in occs :
          (\E o2 \in occs : o2 # o /\ CallText(line, o2) = CallText(line, o))
          => /\ Len(recs) = Cardinality(occs)
             /\ recs[Rank(occs, o)].highlighted_line = Splice(line, o)

\* C10: a record's hook_name is the sentinel exactly when a rule without a
\* quoted-identifier part produced it, and on every line read each occurrence of
\* such a bare call has its record.
C10_SentinelIffBareRule ==
  /\ \A k \in 1..Len(ScanResults) :
       /\ ScanResults[k].function \in IdentRuleNames \cup BareRuleNames
       /\ ScanResults[k].hook_name = NA <=> ScanResults[k].function \in BareRuleNames
  /\ \A fn \in ReadLines :
       LET line == LineOf(fn[1], fn[2])
           recs == RecordsOf(fn[1], fn[2])
           occs == Occurrences(line)
       IN  /\ Len(SelectSeq(recs, LAMBDA r : r.hook_name = NA)) = Cardinality({o \in occs : ~o.hasIdent})
           /\ \A o \in occs : ~o.hasIdent =>
                /\ recs[Rank(occs, o)].function = o.name
                /\ recs[Rank(occs, o)].hook_name = NA

\* C10 witness: results holding a record of a bare call and a record of an
\* identifier-bearing call.
C10_Witness ==
  /\ \E k \in 1..Len(ScanResults) : ScanResults[k].hook_name = NA
  /\ \E k \in 1..Len(ScanResults) : ScanResults[k].hook_name # NA

\* C4: with --category c, main's results are exactly the records of the scan
\* whose category is c, in their original order and unchanged, and filtering them
\* by c again returns the same sequence.
C4_FilterExactOrderedIdempotent ==
  (pc # "scan" /\ args.category # None) =>
    LET keep == {i \in 1..Len(scanned) : scanned[i].category = args.category}
        Nth(k) == CHOOSE i \in keep : Cardinality({j \in keep : j <= i}) = k
    IN  /\ Len(results) = Cardinality(keep)
        /\ \A k \in 1..Len(results) : results[k] = scanned[Nth(k)]
        /\ filter_by_category(results, args.category) = results

\* C4 witness: a filter that kept some records of the scan and dropped others.
C4_Witness ==
  /\ pc # "scan" /\ args.category # None
  /\ Len(results) > 1 /\ Len(results) < Len(scanned)

\* The record the claims expect for occurrence o on the n-th line of a file.
RecordFor(path, n, line, o) ==
  [category |-> Categories[o.rule[1]],
   function |-> o.name,
   function_type |-> function_types[o.name],
   hook_name |-> o.ident,
   line_number |-> n,
   file_path |-> path,
   original_line |-> line,
   highlighted_line |-> Replace(line, CallText(line, o), Backtick \o CallText(line, o) \o Backtick)]

\* C5: a visited file that fails to open or decode has no record in the scan's
\* results and one diagnostic naming it; every other visited file has, line by
\* line, the record of each call on the line, whatever the files around it,
\* and no diagnostic; no record is of another file; the scan visits every
\* selected file.
C5_FailedFileSkippedOthersComplete ==
  /\ \A i \in Visited :
       LET f == Listing[i]
           own == SelectSeq(ScanResults, LAMBDA r : r.file_path = f.path)
       IN  IF f.fail # "none"
           THEN /\ own = <<>>
                /\ Len(SelectSeq(diagnostics, LAMBDA d : d.file_path = f.path)) = 1
           ELSE /\ \A k \in 1..Len(own) : own[k].line_number \in 1..Len(f.lines)
                /\ \A n \in 1..Len(f.lines) :
                     LET line == LineOf(i, n)
                         recs == RecordsOf(i, n)
                         occs == Occurrences(line)
                     IN  /\ Len(recs) = Cardinality(occs)
                         /\ \A o \in occs : recs[Rank(occs, o)] = RecordFor(f.path, n, line, o)
                /\ Len(SelectSeq(diagnostics, LAMBDA d : d.file_path = f.path)) = 0
  /\ \A k \in 1..Len(ScanResults) : \E i \in Visited : ScanResults[k].file_path = Listing[i].path
  /\ pc # "scan" => Visited = 1..Len(Listing)

\* C5 witness: the scan is over; a file that did not decode, with a call on a
\* line before the bad byte, was visited before a file that has records.
C5_Witness ==
  /\ pc # "scan"
  /\ \E i \in Visited, j \in Visited :
       /\ i < j
       /\ Listing[i].fail = "decode" /\ LinesRecords(Listing[i].lines, 1, Listing[i].path) # <<>>
       /\ Listing[j].fail = "none"
       /\ \E k \in 1..Len(scanned) : scanned[k].file_path = Listing[j].path

\* C6, as claimed: with the root absent or unreadable no report file is written.
C6_AsClaimed == root # "ok" => ~output.written

\* C6, amended: with the root absent or unreadable the scan selects no file and
\* raises nothing: the results stay empty, nothing is printed as a diagnostic,
\* the export step is reached and writes a report of its heading lines only, and
\* the summary prints a total of 0 and no category.
C6_MissingRootEmptyReport ==
  root # "ok" =>
    /\ results = <<>> /\ diagnostics = <<>>
    /\ pc \in {"summary", "done"} =>
         /\ output.written
         /\ Len(output.body) = 2
         /\ \A k \in 1..2 : output.body[k].kind \in {"h1", "h2", "project", "header"}
    /\ pc = "done" => summary = <<Entry("total", "", 0)>>

\* C6 witness: a finished run over an unreadable root with files under it.
C6_Witness == root = "unreadable" /\ files # <<>> /\ pc = "done" /\ output.written

\* The place of a record's file in the traversal, and of its rule in the table.
FileIndexOf(r) == CHOOSE i \in 1..Len(files) : files[i].path = r.file_path

RuleOf(r) == (CHOOSE t \in RuleTable : t.name = r.function).rule

\* r is not after r2 by (file, line, rule).
KeyLeq(r, r2) ==
  LET f == FileIndexOf(r)
      f2 == FileIndexOf(r2)
  IN  \/ f < f2
      \/ /\ f = f2
         /\ \/ r.line_number < r2.line_number
            \/ /\ r.line_number = r2.line_number
               /\ (RuleOf(r) = RuleOf(r2) \/ RuleBefore(RuleOf(r), RuleOf(r2)))

IsPrefix(a, b) == Len(a) <= Len(b) /\ SubSeq(b, 1, Len(a)) = a

\* The state part of C7: the results are ordered by (file, line, rule); each
\* record carries the 1-based number and the stripped text of its line; and the
\* records of one rule on one line follow the occurrences from left to right.
C7_Ordered ==
  /\ \A i \in 1..Len(results), j \in 1..Len(results) : i < j => KeyLeq(results[i], results[j])
  /\ \A k \in 1..Len(results) :
       LET r == results[k]
       IN  /\ r.line_number \in 1..Len(files[FileIndexOf(r)].lines)
           /\ r.original_line = LineOf(FileIndexOf(r), r.line_number)
  /\ \A fn \in ReadLines :
       LET line == LineOf(fn[1], fn[2])
           recs == RecordsOf(fn[1], fn[2])
           occs == Occurrences(line)
       IN  \A o \in occs : /\ recs[Rank(occs, o)].function = o.name
                           /\ recs[Rank(occs, o)].hook_name = o.ident

\* C7: at every point of a scan the results are ordered by (file, line, rule,
\* position in the line), with 1-based line numbers, and an append neither
\* reorders nor removes the records that are already there.
C7_ScanOrderStable ==
  [](C7_Ordered) /\ [][pc' = "scan" => IsPrefix(results, results')]_vars

\* C7 witness: in the middle of a scan, records of two files, of two lines of
\* one file, and of two rules and of two places on one line.
C7_Witness ==
  /\ pc = "scan"
  /\ \E i \in 1..Len(results), j \in 1..Len(results) :
       results[i].file_path # results[j].file_path
  /\ \E i \in 1..Len(results), j \in 1..Len(results) :
       /\ results[i].file_path = results[j].file_path
       /\ results[i].line_number # results[j].line_number
  /\ \E i \in 1..Len(results), j \in 1..Len(results) :
       /\ results[i].file_path = results[j].file_path
       /\ results[i].line_number = results[j].line_number
       /\ results[i].function # results[j].function
  /\ \E i \in 1..Len(results), j \in 1..Len(results) :
       /\ i # j
       /\ results[i].file_path = results[j].file_path
       /\ results[i].line_number = results[j].line_number
       /\ results[i].function = results[j].function

\* The report's sections, in the order the claim gives them.
SectionTitles == <<"Actions", "Filters", "Shortcodes", "Hooks">>

SectionCategories == <<"action", "filter", "shortcode", "hook">>

SectionPlace(title) == CHOOSE k \in 1..Len(SectionTitles) : SectionTitles[k] = title

Headers(body, kind) == {i \in 1..Len(body) : body[i].kind = kind}

\* The last entry of the kind before entry i, 0 when there is none.
LastBefore(body, kind, i) ==
  IF \E h \in Headers(body, kind) : h < i
  THEN CHOOSE h \in Headers(body, kind) : h < i /\ \A h2 \in Headers(body, kind) : h2 < i => h2 <= h
  ELSE 0

\* The category and the function-kind an entry of the report stands under.
SectionOf(body, i) == SectionCategories[SectionPlace(body[LastBefore(body, "h3", i)].text)]

FunctionOf(body, i) ==
  CHOOSE name \in DOMAIN function_types : function_types[name] = body[LastBefore(body, "h4", i)].text

\* The k-th smallest element of a set of numbers.
KthOf(S, k) == CHOOSE i \in S : Cardinality({j \in S : j <= i}) = k

\* C8: the Markdown report has its category sections in the order action,
\* filter, shortcode, hook, one for each category with records; in a section one
\* subsection per function-kind with records, in ascending order of the
\* function-kind; and under each subsection exactly the records of that category
\* and function-kind, once each, in result order.
C8_MarkdownGrouping ==
  (output.written /\ args.format = "md") =>
    LET body == output.body
        h3 == Headers(body, "h3")
        h4 == Headers(body, "h4")
        items == Headers(body, "file")
    IN  /\ \A i \in h3, j \in h3 : i < j => SectionPlace(body[i].text) < SectionPlace(body[j].text)
        /\ {body[i].text : i \in h3}
             = {SectionTitles[k] : k \in {x \in 1..Len(SectionTitles) :
                  \E n \in 1..Len(results) : results[n].category = SectionCategories[x]}}
        /\ \A i \in h4 : LastBefore(body, "h3", i) # 0
        /\ \A i \in h4, j \in h4 :
             (i < j /\ LastBefore(body, "h3", i) = LastBefore(body, "h3", j))
             => StrLess(FunctionOf(body, i + 1), FunctionOf(body, j + 1))
        /\ \A c \in 1..Len(SectionCategories) :
             {FunctionOf(body, i + 1) : i \in {x \in h4 : SectionOf(body, x) = SectionCategories[c]}}
               = {results[n].function : n \in {x \in 1..Len(results) :
                    results[x].category = SectionCategories[c]}}
        /\ Cardinality(items) = Len(results)
        /\ \A i \in h4 :
             LET cat == SectionOf(body, i)
                 func == FunctionOf(body, i + 1)
                 recs == SelectSeq(results, LAMBDA r : r.category = cat /\ r.function = func)
                 mine == {x \in items : LastBefore(body, "h4", x) = i}
             IN  /\ Cardinality(mine) = Len(recs)
                 /\ \A k \in 1..Len(recs) :
                      LET at == KthOf(mine, k)
                          line == IF recs[k].hook_name # NA THEN at + 2 ELSE at + 1
                      IN  /\ body[at].text = recs[k].file_path
                          /\ body[at].num = recs[k].line_number
                          /\ recs[k].hook_name # NA =>
                               body[at + 1] = Entry("hook", recs[k].hook_name, 0)
                          /\ line <= Len(body)
                          /\ body[line] = Entry("line", recs[k].highlighted_line, 0)
                          /\ line = Len(body) \/ body[line + 1].kind \in {"file", "h3", "h4"}

\* C8 witness: a Markdown report with two sections, the earlier one with two
\* subsections whose function-kinds first occur in the results in descending
\* order, and a subsection with two records.
C8_Witness ==
  /\ output.written /\ args.format = "md"
  /\ \E i \in Headers(output.body, "h4"), j \in Headers(output.body, "h4") :
       /\ i < j
       /\ LastBefore(output.body, "h3", i) = LastBefore(output.body, "h3", j)
       /\ \E m \in 1..Len(results), n \in 1..Len(results) :
            /\ m < n
            /\ results[m].function = FunctionOf(output.body, j + 1)
            /\ results[n].function = FunctionOf(output.body, i + 1)
            /\ \A x \in 1..(m - 1) : results[x].function # FunctionOf(output.body, i + 1)
  /\ Cardinality(Headers(output.body, "h3")) >= 2
  /\ \E i \in Headers(output.body, "h4") :
       Cardinality({x \in Headers(output.body, "file") : LastBefore(output.body, "h4", x) = i}) >= 2

\* The category a header line of the summary names.
SummaryCategory(text) == SectionCategories[SectionPlace(text)]

\* The substring test of the summary picks, for every call name of the table,
\* the name's own category and no other.
SubstringTestIsTableLookup ==
  \A t \in RuleTable, c \in 1..Len(Categories) :
    InCategoryPatterns(t.name, Categories[c]) <=> c = t.rule[1]

\* C9: the summary's total is the number of records of main's results; the
\* categories it lists are those with records, once each, with their record
\* count; and under a category stand exactly the function-kinds that have
\* records in that category, in ascending order, each with the number of records
\* of that category and function-kind, these numbers summing to the category's.
C9_SummaryBreakdown ==
  pc = "done" =>
    LET cats == Headers(summary, "category")
        funcs == Headers(summary, "function")
        InCat(n, c) == results[n].category = c
    IN  /\ SubstringTestIsTableLookup
        /\ summary[1] = Entry("total", "", Len(results))
        /\ \A i \in 2..Len(summary) : summary[i].kind \in {"category", "function"}
        /\ \A i \in funcs : LastBefore(summary, "category", i) # 0
        /\ \A i \in cats, j \in cats : i # j => summary[i].text # summary[j].text
        /\ {SummaryCategory(summary[i].text) : i \in cats}
             = {results[n].category : n \in 1..Len(results)}
        /\ \A i \in cats :
             LET c == SummaryCategory(summary[i].text)
                 mine == {x \in funcs : LastBefore(summary, "category", x) = i}
                 recs == SelectSeq(results, LAMBDA r : r.category = c)
             IN  /\ summary[i].num = Len(recs)
                 /\ {summary[x].text : x \in mine} = {recs[n].function : n \in 1..Len(recs)}
                 /\ \A x \in mine, y \in mine : x < y => StrLess(summary[x].text, summary[y].text)
                 /\ \A x \in mine :
                      summary[x].num = Len(SelectSeq(recs, LAMBDA r : r.function = summary[x].text))
                 /\ Len(recs) = Cardinality({n \in 1..Len(recs) :
                                   \E x \in mine : summary[x].text = recs[n].function})

\* C9 witness: a summary of two categories, one of them with two function-kinds,
\* one of these with two records.
C9_Witness ==
  /\ pc = "done"
  /\ Cardinality(Headers(summary, "category")) >= 2
  /\ \E i \in Headers(summary, "function"), j \in Headers(summary, "function") :
       /\ i < j
       /\ LastBefore(summary, "category", i) = LastBefore(summary, "category", j)
       /\ summary[i].num >= 2 \/ summary[j].num >= 2

====
